---- MODULE Spec2Model ----
(***************************************************************************)
(* The record prototype of src/proto.js: attribute storage with dirty      *)
(* tracking, the validation pipeline, and the save / update / destroy      *)
(* orchestration over an XMLHttpRequest transport.                         *)
(*                                                                         *)
(* A record is the tuple of fields  attrs, dirty, errors, destroyed.  The  *)
(* methods of the prototype are operators over a context                   *)
(*     [self, inflight, trace, op]                                         *)
(* where self is the record, inflight the bag of requests that were sent   *)
(* and not yet answered, trace the ordered list of what the method did     *)
(* that an outsider can see (requests sent, events emitted, completion     *)
(* callbacks invoked, each with the record as it was at that moment), and  *)
(* op the public method the caller invoked.                                *)
(***************************************************************************)
EXTENDS Bags, FiniteSets, Integers, Sequences, TLC

(***************************************************************************)
(* Bounds                                                                  *)
(***************************************************************************)
\* requests that may be outstanding at the same time
MaxInFlight == 1

(***************************************************************************)
(* JavaScript values                                                       *)
(***************************************************************************)
Undefined == [t |-> "undefined"]
Null      == [t |-> "null"]
Num(n)    == [t |-> "number", v |-> n]
Str(s)    == [t |-> "string", v |-> s]
Obj(id)   == [t |-> "object", id |-> id]

\* ToBoolean, as applied by `if (res.body)`
Truthy(v) ==
  CASE v.t = "undefined" -> FALSE
    [] v.t = "null"      -> FALSE
    [] v.t = "number"    -> v.v # 0
    [] v.t = "string"    -> v.v # ""
    [] OTHER             -> TRUE

\* `null != v`
NotLooseNull(v) == v.t \notin {"null", "undefined"}

Digits == <<"0", "1", "2", "3", "4", "5", "6", "7", "8", "9">>

\* string conversion, as applied by `url + '/' + id`
ToStr(v) ==
  CASE v.t = "undefined" -> "undefined"
    [] v.t = "null"      -> "null"
    [] v.t = "number"    -> Digits[v.v + 1]
    [] v.t = "string"    -> v.v
    [] OTHER             -> "[object Object]"

\* property read `o.id`
GetId(o) == IF o.t = "object" THEN o.id ELSE Undefined

(***************************************************************************)
(* The schema (this.model) and the values the caller and server may use    *)
(***************************************************************************)
Attrs      == {"id", "name"}
primaryKey == "id"
base       == "/users"

IdVals   == {Undefined, Null, Num(0), Num(5)}
NameVals == {Undefined, Str("a")}
ValsOf(a) == IF a = "id" THEN IdVals ELSE NameVals

\* this.model.validators, in registration order
validators == <<"presence", "length">>

\* this.model.url(): the collection url
modelUrl == base

(***************************************************************************)
(* The record and the context of a method call                             *)
(***************************************************************************)
VARIABLES attrs, dirty, errors, destroyed, inflight, last

vars == <<attrs, dirty, errors, destroyed, inflight, last>>

NoReq == [method |-> "", url |-> "", body |-> <<>>, fn |-> "", via |-> "",
          terminal |-> FALSE]

Self == [attrs |-> attrs, dirty |-> dirty, errors |-> errors,
         destroyed |-> destroyed]

Ctx(op) == [self |-> Self, inflight |-> inflight, trace |-> <<>>, op |-> op]

\* one visible effect of a method
Effect(kind, what, req, R) == [kind |-> kind, what |-> what, req |-> req, obs |-> R]

(***************************************************************************)
(* Attribute store                                                         *)
(***************************************************************************)
\* the generated accessor this[name](): getter
Getter(R, name) == R.attrs[name]

\* the generated accessor this[name](val): setter, marks the attribute dirty
Setter(R, name, val) ==
  [R EXCEPT !.attrs = [@ EXCEPT ![name] = val],
            !.dirty = @ \cup {name}]

get(R, attr) == R.attrs[attr]

\* has() testing truthiness instead of comparing with null
has_truthy(R, attr) == Truthy(R.attrs[attr])

has(R, attr) == NotLooseNull(R.attrs[attr])

toJSON(R) == R.attrs

isNew(R) == ~ has(R, primaryKey)

primary(R) == Getter(R, primaryKey)

primarySet(R, val) == Setter(R, primaryKey, val)

\* set(attrs): every key of m goes through its setter
RECURSIVE SetKeys(_, _, _)
SetKeys(R, m, keys) ==
  IF keys = {} THEN R
  ELSE LET k == CHOOSE k \in keys : TRUE
       IN SetKeys(Setter(R, k, m[k]), m, keys \ {k})

set(R, m) == SetKeys(R, m, DOMAIN m)

\* changed(): false, or the dirty attributes
changed(R) ==
  IF Cardinality(R.dirty) # 0 THEN [falsy |-> FALSE, keys |-> R.dirty]
  ELSE [falsy |-> TRUE, keys |-> {}]

(***************************************************************************)
(* Validation                                                              *)
(***************************************************************************)
error(R, attr, msg) ==
  [R EXCEPT !.errors = Append(@, [attr |-> attr, message |-> msg])]

\* the validator functions registered on the schema
RunValidator(fn, R) ==
  CASE fn = "presence" ->
         IF has(R, "name") THEN R ELSE error(R, "name", "is required")
    [] fn = "length" ->
         IF has(R, "name") /\ get(R, "name").v # "" THEN R
         ELSE error(R, "name", "is too short")

\* each() that stops at the first validator that registers an error
RECURSIVE each_stopAtFirst(_, _, _)
each_stopAtFirst(fns, i, R) ==
  IF i > Len(fns) \/ Len(R.errors) > 0 THEN R
  ELSE each_stopAtFirst(fns, i + 1, RunValidator(fns[i], R))

RECURSIVE each(_, _, _)
each(fns, i, R) ==
  IF i > Len(fns) THEN R
  ELSE each(fns, i + 1, RunValidator(fns[i], R))

validate(R) == each(validators, 1, [R EXCEPT !.errors = <<>>])

isValid(R) ==
  LET R1 == validate(R)
  IN [self |-> R1, ret |-> (0 = Len(R1.errors))]

(***************************************************************************)
(* Events, completion callbacks and the transport                          *)
(***************************************************************************)
\* the value of `err` when a completion callback is invoked as fn()
NoErr == "none"

\* self.emit(name): listeners see the record as it is now
emit(C, name) ==
  [C EXCEPT !.trace = Append(@, Effect("emit", name, NoReq, C.self))]

\* fn(err): the caller's completion callback (noop when none was given)
fn(C, err) ==
  [C EXCEPT !.trace = Append(@, Effect("callback", err, NoReq, C.self))]

\* JSON.stringify of an object: keys whose value is undefined are left out
stringify(o) == [k \in {k \in DOMAIN o : o[k] # Undefined} |-> o[k]]

\* url(): base + '/' + id
url(R) == base \o "/" \o ToStr(primary(R))

\* request(method, url, fn): serialise the record, open and send; the
\* request remembers the method the caller invoked (via) and whether the
\* record was already destroyed when it was sent (terminal)
request(C, method, u, cb) ==
  LET json == stringify(toJSON(C.self))
      req  == [method |-> method, url |-> u, body |-> json, fn |-> cb,
               via |-> C.op, terminal |-> C.self.destroyed]
  IN [C EXCEPT !.inflight = @ (+) SetToBag({req}),
               !.trace = Append(@, Effect("request", method, req, C.self))]

\* destroy callback that sets the flag before it emits the event
destroyCallback_flagFirst(C, err, res) ==
  IF err # NoErr THEN fn(C, err)
  ELSE LET C1 == [C EXCEPT !.self.destroyed = TRUE]
           C2 == emit(C1, "destroy")
       IN fn(C2, NoErr)

\* destroy callback that also resets the dirty set
destroyCallback_clearDirty(C, err, res) ==
  IF err # NoErr THEN fn(C, err)
  ELSE LET C1 == emit(C, "destroy")
           C2 == [C1 EXCEPT !.self.destroyed = TRUE, !.self.dirty = {}]
       IN fn(C2, NoErr)

\* the callback destroy() hands to request()
destroyCallback(C, err, res) ==
  IF err # NoErr THEN fn(C, err)
  ELSE LET C1 == emit(C, "destroy")
           C2 == [C1 EXCEPT !.self.destroyed = TRUE]
       IN fn(C2, NoErr)

\* save callback that clears dirty before it assigns the primary key
saveCallback_clearFirst(C, err, res) ==
  IF err # NoErr THEN fn(C, err)
  ELSE LET C1 == [C EXCEPT !.self.dirty = {}]
           C2 == IF Truthy(res.body)
                 THEN [C1 EXCEPT !.self = primarySet(@, GetId(res.body))]
                 ELSE C1
           C3 == emit(C2, "save")
       IN fn(C3, NoErr)

\* save callback that never assigns the primary key
saveCallback_noPrimary(C, err, res) ==
  IF err # NoErr THEN fn(C, err)
  ELSE LET C2 == [C EXCEPT !.self.dirty = {}]
           C3 == emit(C2, "save")
       IN fn(C3, NoErr)

\* the callback save() hands to request()
saveCallback(C, err, res) ==
  IF err # NoErr THEN fn(C, err)
  ELSE LET C1 == IF Truthy(res.body)
                 THEN [C EXCEPT !.self = primarySet(@, GetId(res.body))]
                 ELSE C
           C2 == [C1 EXCEPT !.self.dirty = {}]
           C3 == emit(C2, "save")
       IN fn(C3, NoErr)

\* update callback that emits `save` as well
updateCallback_emitSave(C, err, res) ==
  IF err # NoErr THEN fn(C, err)
  ELSE LET C1 == [C EXCEPT !.self.dirty = {}]
           C2 == emit(emit(C1, "update"), "save")
       IN fn(C2, NoErr)

\* update callback that calls back before it clears dirty and emits
updateCallback_callbackFirst(C, err, res) ==
  IF err # NoErr THEN fn(C, err)
  ELSE LET C1 == fn(C, NoErr)
           C2 == [C1 EXCEPT !.self.dirty = {}]
       IN emit(C2, "update")

\* the callback update() hands to request()
updateCallback(C, err, res) ==
  IF err # NoErr THEN fn(C, err)
  ELSE LET C1 == [C EXCEPT !.self.dirty = {}]
           C2 == emit(C1, "update")
       IN fn(C2, NoErr)

\* destroy() without the isNew guard
destroy_noGuard(C) ==
  LET u == url(C.self)
  IN request(C, "DELETE", u, "destroy")

destroy(C) ==
  IF isNew(C.self) THEN fn(C, "not saved")
  ELSE LET u == url(C.self)
       IN request(C, "DELETE", u, "destroy")

\* update() that clears dirty when called rather than on success
update_clearEarly(C) ==
  LET u  == url(C.self)
      v  == isValid(C.self)
      C1 == [C EXCEPT !.self = [v.self EXCEPT !.dirty = {}]]
  IN IF ~ v.ret THEN fn(C1, "validation failed")
     ELSE request(C1, "PUT", u, "update")

\* update() that does not return after reporting the validation failure
update_sendInvalid(C) ==
  LET u  == url(C.self)
      v  == isValid(C.self)
      C1 == [C EXCEPT !.self = v.self]
      C2 == IF ~ v.ret THEN fn(C1, "validation failed") ELSE C1
  IN request(C2, "PUT", u, "update")

update(C) ==
  LET u  == url(C.self)
      v  == isValid(C.self)
      C1 == [C EXCEPT !.self = v.self]
  IN IF ~ v.ret THEN fn(C1, "validation failed")
     ELSE request(C1, "PUT", u, "update")

\* create path that clears dirty when called rather than on success
create_clearEarly(C) ==
  LET u  == modelUrl
      v  == isValid(C.self)
      C1 == [C EXCEPT !.self = [v.self EXCEPT !.dirty = {}]]
  IN IF ~ v.ret THEN fn(C1, "validation failed")
     ELSE request(C1, "POST", u, "save")

\* create path that does not return after reporting the validation failure
create_sendInvalid(C) ==
  LET u  == modelUrl
      v  == isValid(C.self)
      C1 == [C EXCEPT !.self = v.self]
      C2 == IF ~ v.ret THEN fn(C1, "validation failed") ELSE C1
  IN request(C2, "POST", u, "save")

\* the create path of save()
create(C) ==
  LET u  == modelUrl
      v  == isValid(C.self)
      C1 == [C EXCEPT !.self = v.self]
  IN IF ~ v.ret THEN fn(C1, "validation failed")
     ELSE request(C1, "POST", u, "save")

\* save() that delegates to update() whether the record is new or not
save_alwaysUpdate(C) == update(C)

\* save() that tests the primary key for truthiness instead of isNew()
save_truthy(C) ==
  IF Truthy(primary(C.self)) THEN update(C) ELSE create(C)

save(C) ==
  IF ~ isNew(C.self) THEN update(C) ELSE create(C)

\* what the server may answer
Statuses == {201, 500}
Headers  == {Null, Str("application/json; charset=utf-8")}
Texts    == {"", "null", "{}", "{\"id\":5}", "{\"id\":0}"}

\* the answers told apart by onreadystatechange: a non-2xx status, a 2xx
\* answer that is not JSON, and a 2xx JSON answer with each of the texts
Answers ==
  {[status |-> st, header |-> h, text |-> t] :
     st \in Statuses, h \in Headers, t \in Texts} \
  {a \in [status : Statuses, header : Headers, text : Texts] :
     (a.status = 500 \/ a.header = Null) /\ a.text # ""}

\* (header || '').split(';')[0]
ContentType(h) ==
  LET s == IF Truthy(h) THEN h.v ELSE ""
  IN IF s = "application/json; charset=utf-8" THEN "application/json" ELSE s

\* JSON.parse: throws on text that is not JSON
Parses(text) == text # ""

parse(text) ==
  CASE text = "null"          -> Null
    [] text = "{}"            -> Obj(Undefined)
    [] text = "{\"id\":5}"    -> Obj(Num(5))
    [] text = "{\"id\":0}"    -> Obj(Num(0))

\* req.body as the request callback sees it: set only for a 2xx JSON answer
ResBody(status, header, text) ==
  IF 2 = status \div 100 /\ "application/json" = ContentType(header)
     /\ Parses(text)
  THEN parse(text) ELSE Undefined

\* the request() callback of `req`, called as cb(err, res)
Callback(req, C, err, res) ==
  CASE req.fn = "save"    -> saveCallback(C, err, res)
    [] req.fn = "update"  -> updateCallback(C, err, res)
    [] req.fn = "destroy" -> destroyCallback(C, err, res)

\* req.onreadystatechange at readyState 4
onreadystatechange(C, req, st, header, text) ==
  LET status == st \div 100
      type   == ContentType(header)
      json   == "application/json" = type
  IN IF 2 = status
     THEN IF json /\ ~ Parses(text) THEN C   \* JSON.parse throws
          ELSE Callback(req, C, NoErr, [body |-> ResBody(st, header, text)])
     ELSE C

(***************************************************************************)
(* Initial state: a record constructed from any initial attributes         *)
(***************************************************************************)
Init ==
  /\ attrs \in [Attrs -> IdVals \cup NameVals]
  /\ \A a \in Attrs : attrs[a] \in ValsOf(a)
  /\ dirty = {}
  /\ errors = <<>>
  /\ destroyed = FALSE
  /\ inflight = EmptyBag
  /\ last = [op |-> "new", trace |-> <<>>, req |-> NoReq, status |-> 0,
             body |-> Undefined]

Commit(op, C, req, status, body) ==
  /\ attrs' = C.self.attrs
  /\ dirty' = C.self.dirty
  /\ errors' = C.self.errors
  /\ destroyed' = C.self.destroyed
  /\ inflight' = C.inflight
  /\ last' = [op |-> op, trace |-> C.trace, req |-> req, status |-> status,
              body |-> body]

\* the argument of set(): no key, or one key with any of its values
Maps == UNION {[D -> IdVals \cup NameVals] :
                 D \in {E \in SUBSET Attrs : Cardinality(E) <= 1}}

Set ==
  \E m \in Maps :
    /\ \A a \in DOMAIN m : m[a] \in ValsOf(a)
    /\ Commit("set", [Ctx("set") EXCEPT !.self = set(Self, m)], NoReq, 0, Undefined)

Validate ==
  Commit("validate", [Ctx("validate") EXCEPT !.self = validate(Self)], NoReq, 0, Undefined)

IsValid ==
  Commit("isValid", [Ctx("isValid") EXCEPT !.self = isValid(Self).self], NoReq, 0, Undefined)

\* the caller asks changed(): the record is only read
Changed ==
  Commit("changed", Ctx("changed"), NoReq, 0, Undefined)

\* a call may send a request only while fewer than MaxInFlight are outstanding
Bounded(C) == BagCardinality(C.inflight) <= MaxInFlight

Save ==
  LET C == save(Ctx("save"))
  IN Bounded(C) /\ Commit("save", C, NoReq, 0, Undefined)

Update ==
  LET C == update(Ctx("update"))
  IN Bounded(C) /\ Commit("update", C, NoReq, 0, Undefined)

Destroy ==
  LET C == destroy(Ctx("destroy"))
  IN Bounded(C) /\ Commit("destroy", C, NoReq, 0, Undefined)

OnReadyStateChange ==
  \E req \in BagToSet(inflight), a \in Answers :
    LET C == [Ctx("response") EXCEPT !.inflight = @ (-) SetToBag({req})]
    IN Commit("response",
              onreadystatechange(C, req, a.status, a.header, a.text),
              req, a.status, ResBody(a.status, a.header, a.text))

Next ==
  \/ Set
  \/ Validate
  \/ IsValid
  \/ Changed
  \/ Save
  \/ Update
  \/ Destroy
  \/ OnReadyStateChange

Spec == Init /\ [][Next]_vars

(***************************************************************************)
(* Reading the last step                                                   *)
(***************************************************************************)
Count(tr, kind) == Cardinality({i \in DOMAIN tr : tr[i].kind = kind})

CountOf(tr, kind, what) ==
  Cardinality({i \in DOMAIN tr : tr[i].kind = kind /\ tr[i].what = what})

Requests(tr, method) == {tr[i].req : i \in {j \in DOMAIN tr :
                           tr[j].kind = "request" /\ tr[j].what = method}}

PersistCalls == {"save", "update", "destroy"}

\* the transport reported 2xx
Ok2xx(st) == st >= 200 /\ st <= 299

\* the last step answered a request of callback `cb` with 2xx and its
\* completion callback ran without error
Succeeded(l, cb) ==
  /\ l.op = "response"
  /\ l.req.fn = cb
  /\ Ok2xx(l.status)
  /\ CountOf(l.trace, "callback", NoErr) = 1

\* the last step answered a request of callback `cb` with a non-2xx status
TransportFailed(l, cb) ==
  /\ l.op = "response"
  /\ l.req.fn = cb
  /\ ~ Ok2xx(l.status)

\* the last step was a call of `op` that ended in a validation failure
ValidationFailed(l, op) ==
  /\ l.op = op
  /\ CountOf(l.trace, "callback", "validation failed") = 1

(***************************************************************************)
(* Claims                                                                  *)
(***************************************************************************)

\* C1: every save, update or destroy call invokes its completion callback
\* exactly once: a call either calls back at once and sends nothing, or sends
\* one request whose answer calls back exactly once; when the transport
\* answers with a non-2xx status the callback gets a non-null error and the
\* primary key and the dirty set are what they were.
C1_CallbackExactlyOnce ==
  [][ /\ (last'.op \in PersistCalls =>
            Count(last'.trace, "callback") + Count(last'.trace, "request") = 1)
      /\ (last'.op = "response" => Count(last'.trace, "callback") = 1)
      /\ (last'.op = "response" /\ ~ Ok2xx(last'.status) =>
            /\ CountOf(last'.trace, "callback", NoErr) = 0
            /\ attrs'[primaryKey] = attrs[primaryKey]
            /\ dirty' = dirty) ]_vars

\* C2: after a successful save or update (2xx, callback ran without error)
\* changed() returns false: the dirty set is empty, also when the primary key
\* was assigned from the response.
C2_DirtyClearedOnSuccess ==
  (Succeeded(last, "save") \/ Succeeded(last, "update")) =>
     /\ changed(Self).falsy
     /\ dirty = {}

C2_Witness ==
  /\ Succeeded(last, "save")
  /\ last.body = Obj(Num(5))
  /\ primary(Self) = Num(5)
  /\ changed(Self).falsy

\* C3: a save or update that fails, by validation or by a non-2xx answer of
\* the transport, leaves the dirty set as it was before.
C3_DirtyKeptOnFailure ==
  [][ (\/ ValidationFailed(last', "save")
       \/ ValidationFailed(last', "update")
       \/ TransportFailed(last', "save")
       \/ TransportFailed(last', "update")) => dirty' = dirty ]_vars

C3_Witness ==
  /\ ValidationFailed(last, "update")
  /\ dirty = {"name"}

\* C4: isNew() is true exactly when primary() is null or undefined, in every
\* state of the record and in every state a listener or callback observes.
C4_NewIffNoPrimary ==
  /\ isNew(Self) <=> primary(Self) \in {Null, Undefined}
  /\ \A i \in DOMAIN last.trace :
       isNew(last.trace[i].obs) <=> primary(last.trace[i].obs) \in {Null, Undefined}

C4_Witness ==
  /\ Succeeded(last, "save")
  /\ primary(Self) = Num(0)
  /\ ~ isNew(Self)

\* C5: save or update on a record with a failing validator calls back with
\* the validation-failure error, sends no request, and leaves errors
\* non-empty.
C5_ValidationFailure ==
  [][ (last'.op \in {"save", "update"} /\ Len(validate(Self).errors) > 0) =>
        /\ Count(last'.trace, "callback") = 1
        /\ CountOf(last'.trace, "callback", "validation failed") = 1
        /\ Count(last'.trace, "request") = 0
        /\ inflight' = inflight
        /\ Len(errors') >= 1 ]_vars

C5_Witness ==
  /\ ValidationFailed(last, "save")
  /\ Len(errors) = 2
  /\ inflight = EmptyBag

\* C6: destroy(cb) on a new record calls cb with the 'not saved' error and
\* nothing else: no request is sent and destroyed is not changed (a record
\* whose destroyed is false still has it false).
C6_DestroyGuard ==
  [][ (last'.op = "destroy" /\ isNew(Self)) =>
        /\ Len(last'.trace) = 1
        /\ CountOf(last'.trace, "callback", "not saved") = 1
        /\ Count(last'.trace, "request") = 0
        /\ inflight' = inflight
        /\ destroyed' = destroyed ]_vars

C6_Witness ==
  /\ last.op = "destroy"
  /\ CountOf(last.trace, "callback", "not saved") = 1
  /\ isNew(Self)
  /\ ~ destroyed
  /\ inflight = EmptyBag

\* C7: save on a record that is not new takes the update path: it sends no
\* POST, every request it sends is a PUT to the record's own url, and it
\* sends that PUT whenever the record is valid.
C7_SaveDelegatesToUpdate ==
  [][ (last'.op = "save" /\ ~ isNew(Self)) =>
        /\ Requests(last'.trace, "POST") = {}
        /\ \A i \in DOMAIN last'.trace :
             last'.trace[i].kind = "request" =>
               /\ last'.trace[i].what = "PUT"
               /\ last'.trace[i].req.method = "PUT"
               /\ last'.trace[i].req.url = base \o "/" \o ToStr(attrs[primaryKey])
        /\ (Len(validate(Self).errors) = 0 =>
              CountOf(last'.trace, "request", "PUT") = 1) ]_vars

C7_Witness ==
  /\ last.op = "save"
  /\ \E r \in Requests(last.trace, "PUT") : r.url = "/users/0"
  /\ Requests(last.trace, "POST") = {}

\* C8 as stated: after a successful create whose response carries a body,
\* the primary key equals the response's id, the record is not new, and a
\* save made now sends no POST.
C8_Original ==
  (Succeeded(last, "save") /\ Truthy(last.body)) =>
     /\ primary(Self) = GetId(last.body)
     /\ ~ isNew(Self)
     /\ Requests(save(Ctx("save")).trace, "POST") = {}

\* C8: after a successful create whose response carries a body with an id
\* that is neither null nor undefined, the primary key equals that id, the
\* record is not new, and a save made now sends no POST.
C8_PrimaryFromResponse ==
  (Succeeded(last, "save") /\ Truthy(last.body)
     /\ NotLooseNull(GetId(last.body))) =>
     /\ primary(Self) = GetId(last.body)
     /\ ~ isNew(Self)
     /\ Requests(save(Ctx("save")).trace, "POST") = {}

C8_Witness ==
  /\ Succeeded(last, "save")
  /\ last.body = Obj(Num(5))
  /\ attrs["id"] = Num(5)
  /\ \E r \in Requests(save(Ctx("save")).trace, "PUT") : r.url = "/users/5"

\* C9: a `save` event is emitted on every successful create and on every
\* successful update that was reached through save().
C9_SaveEventOnUpdate ==
  /\ Succeeded(last, "save") => CountOf(last.trace, "emit", "save") >= 1
  /\ (Succeeded(last, "update") /\ last.req.via = "save") =>
        CountOf(last.trace, "emit", "save") >= 1

C11_DestroyOrder ==
  [][ Succeeded(last', "destroy") =>
        /\ Len(last'.trace) = 2
        /\ last'.trace[1].kind = "emit"
        /\ last'.trace[1].what = "destroy"
        /\ last'.trace[1].obs.destroyed = destroyed
        /\ (~ destroyed => ~ last'.trace[1].obs.destroyed)
        /\ last'.trace[2].kind = "callback"
        /\ last'.trace[2].what = NoErr
        /\ last'.trace[2].obs.destroyed
        /\ destroyed' ]_vars

C11_Witness ==
  /\ Succeeded(last, "destroy")
  /\ last.trace[1].kind = "emit"
  /\ ~ last.trace[1].obs.destroyed
  /\ last.trace[2].kind = "callback"
  /\ last.trace[2].obs.destroyed
  /\ destroyed

\* C12: destroyed becomes true only by a DELETE that the transport confirmed;
\* it is set true once per record, so that no answer to a destroy of a record
\* that is already destroyed runs the success path again; once true it
\* stays true; a failed destroy leaves it as it was.
C12_DestroyedOnce ==
  [][ /\ ((~ destroyed /\ destroyed') =>
            /\ Succeeded(last', "destroy")
            /\ last'.req.method = "DELETE")
      /\ (destroyed => destroyed')
      /\ ((destroyed /\ last'.op = "response") =>
            CountOf(last'.trace, "emit", "destroy") = 0)
      /\ (TransportFailed(last', "destroy") => destroyed' = destroyed) ]_vars

\* C13: once destroyed is true, no save, update or destroy call made from
\* then on alters attrs, neither when it is called nor when its request is
\* answered.
C13_TerminalAttrs ==
  [][ /\ ((destroyed /\ last'.op \in PersistCalls) => attrs' = attrs)
      /\ ((last'.op = "response" /\ last'.req.terminal) => attrs' = attrs) ]_vars

\* the step was a destroy rejected with 'not saved'
NotSaved(l) ==
  /\ l.op = "destroy"
  /\ CountOf(l.trace, "callback", "not saved") = 1

\* the step was a failure of a save, update or destroy
Failed(l) ==
  \/ ValidationFailed(l, "save")
  \/ ValidationFailed(l, "update")
  \/ NotSaved(l)
  \/ \E cb \in PersistCalls : TransportFailed(l, cb)

\* C14 as stated: a failed save, update or destroy leaves attrs, dirty,
\* errors and destroyed as they were.
C14_Original ==
  [][ Failed(last') =>
        /\ attrs' = attrs
        /\ dirty' = dirty
        /\ errors' = errors
        /\ destroyed' = destroyed ]_vars

\* C14: a failed save, update or destroy leaves attrs, dirty and destroyed
\* as they were; errors is left as it was by a 'not saved' rejection and by
\* the answer of a failed transport call, but the validation run of a save
\* or update replaces errors by the failures it finds, whether the call then
\* fails or sends its request.
C14_FailureFrame ==
  [][ /\ ((Failed(last') \/ last'.op \in PersistCalls) =>
            /\ attrs' = attrs
            /\ dirty' = dirty
            /\ destroyed' = destroyed)
      /\ ((ValidationFailed(last', "save") \/ ValidationFailed(last', "update")) =>
            /\ errors' = validate(Self).errors
            /\ Len(errors') > 0)
      /\ ((last'.op \in {"save", "update"} /\ Count(last'.trace, "request") = 1) =>
            errors' = <<>>)
      /\ ((last'.op = "destroy" \/ \E cb \in PersistCalls : TransportFailed(last', cb)) =>
            errors' = errors) ]_vars

C14_Witness ==
  /\ ValidationFailed(last, "save")
  /\ dirty = {"id", "name"}
  /\ Len(errors) = 2
  /\ ~ destroyed

\* C15: validate(), isValid(), changed() and destroy (rejected, failed or
\* successful, at the call and at the answer) leave dirty and attrs as they
\* were; dirty goes from non-empty to empty only in the success path of a
\* save or update.
C15_DirtyFrame ==
  [][ /\ ((\/ last'.op \in {"validate", "isValid", "changed", "destroy"}
           \/ (last'.op = "response" /\ last'.req.fn = "destroy")) =>
            /\ dirty' = dirty
            /\ attrs' = attrs)
      /\ ((dirty # {} /\ dirty' = {}) =>
            (Succeeded(last', "save") \/ Succeeded(last', "update"))) ]_vars

C15_Witness ==
  /\ Succeeded(last, "destroy")
  /\ destroyed
  /\ dirty = {"name"}

\* the errors the n first validators register on R, each run on its own
RECURSIVE Failures(_, _)
Failures(R, n) ==
  IF n = 0 THEN <<>>
  ELSE Failures(R, n - 1)
         \o RunValidator(validators[n], [R EXCEPT !.errors = <<>>]).errors

\* C16: every validation run (validate, isValid, and the one inside save and
\* update) leaves errors equal to the failures of all registered validators
\* on the current attributes, in registration order, and nothing else: two
\* failing validators give two errors, whatever errors held before.
C16_ErrorsOfThisRun ==
  [][ last'.op \in {"validate", "isValid", "save", "update"} =>
        errors' = Failures(Self, Len(validators)) ]_vars

C16_Witness ==
  /\ last.op = "validate"
  /\ errors = << [attr |-> "name", message |-> "is required"],
                 [attr |-> "name", message |-> "is too short"] >>

\* C17: in every successful create, update and destroy the event of that
\* path (`save`, `update`, `destroy`) is emitted before the completion
\* callback runs, and for create and update the callback already sees the
\* dirty set empty.
C17_EventBeforeCallback ==
  \A cb \in PersistCalls :
    Succeeded(last, cb) =>
      \E i, j \in DOMAIN last.trace :
        /\ i < j
        /\ last.trace[i].kind = "emit"
        /\ last.trace[i].what = cb
        /\ last.trace[j].kind = "callback"
        /\ last.trace[j].what = NoErr
        /\ (cb # "destroy" => /\ last.trace[i].obs.dirty = {}
                              /\ last.trace[j].obs.dirty = {})

C17_Witness ==
  /\ Succeeded(last, "update")
  /\ Len(last.trace) = 2
  /\ last.trace[1].kind = "emit"
  /\ last.trace[1].what = "update"
  /\ last.trace[2].kind = "callback"
  /\ last.trace[2].obs.dirty = {}

\* the local checks of a call: the not-new guard of destroy, the validation
\* of save and update
PassesLocalChecks(op, R) ==
  IF op = "destroy" THEN NotLooseNull(R.attrs[primaryKey])
  ELSE Failures(R, Len(validators)) = <<>>

\* C18: a call of save, update or destroy sends exactly one request when it
\* passes its local checks and none otherwise, so never more than one; a
\* save that delegates to update sends update's PUT and nothing of its own.
C18_OneRequestPerCall ==
  [][ last'.op \in PersistCalls =>
        /\ Count(last'.trace, "request") =
             (IF PassesLocalChecks(last'.op, Self) THEN 1 ELSE 0)
        /\ BagCardinality(inflight') =
             BagCardinality(inflight) + Count(last'.trace, "request")
        /\ ((last'.op = "save" /\ NotLooseNull(attrs[primaryKey])) =>
              Requests(last'.trace, "POST") = {}) ]_vars

C18_Witness ==
  /\ last.op = "save"
  /\ Count(last.trace, "request") = 1
  /\ \E r \in Requests(last.trace, "PUT") : r.via = "save" /\ r.fn = "update"
  /\ BagCardinality(inflight) = 1

\* urls built from an absent primary key
AbsentKeyUrls == {"/users/undefined", "/users/null"}

\* the PUT and DELETE requests of a trace
ResourceRequests(tr) == Requests(tr, "PUT") \cup Requests(tr, "DELETE")

\* C19 as stated: no PUT or DELETE sent by save, update or destroy targets a
\* url built from an absent primary key.
C19_Original ==
  [][ last'.op \in PersistCalls =>
        \A r \in ResourceRequests(last'.trace) :
          /\ attrs[primaryKey] \notin {Null, Undefined}
          /\ r.url \notin AbsentKeyUrls ]_vars

\* C19: no PUT or DELETE sent by save or destroy targets a url built from an
\* absent primary key; update called on a new record that is valid does send
\* its PUT to such a url.
C19_KeyPresentInUrl ==
  [][ /\ (last'.op \in {"save", "destroy"} =>
            \A r \in ResourceRequests(last'.trace) :
              /\ attrs[primaryKey] \notin {Null, Undefined}
              /\ r.url \notin AbsentKeyUrls)
      /\ ((last'.op = "update" /\ attrs[primaryKey] \in {Null, Undefined}
             /\ Failures(Self, Len(validators)) = <<>>) =>
            \E r \in Requests(last'.trace, "PUT") : r.url \in AbsentKeyUrls) ]_vars

C19_Witness ==
  /\ last.op = "destroy"
  /\ \E r \in Requests(last.trace, "DELETE") : r.url = "/users/5"
  /\ attrs[primaryKey] = Num(5)

\* the value of key a in a request body, as the server reads it
BodyValue(body, a) == IF a \in DOMAIN body THEN body[a] ELSE Undefined

\* C20: right after a successful save or update, with no request in flight
\* and changed() false, every attribute other than the primary key has the
\* value that was sent in the body of the request just confirmed, also when
\* the caller set an attribute between the sending and the answer.
C20_CleanMeansSent ==
  ((Succeeded(last, "save") \/ Succeeded(last, "update"))
     /\ inflight = EmptyBag
     /\ changed(Self).falsy) =>
    \A a \in Attrs \ {primaryKey} : attrs[a] = BodyValue(last.req.body, a)
====
